---- MODULE Spec2Model ----
(***************************************************************************)
(* A model of the pocketbase-client request/response pipeline: the         *)
(* typestate client and auth_with_password (client.rs), the Httpc          *)
(* transport wrapper (httpc.rs), the list builders and their setters       *)
(* (collections.rs, logs.rs, records.rs), the record operations and the    *)
(* two get_all pagination loops (records.rs).                              *)
(*                                                                         *)
(* Conventions.  A Rust String is a sequence of text chunks, so format!    *)
(* is concatenation (\o).  A response body is kept twice: `json`, the JSON *)
(* document the bytes spell (or Invalid), and `text`, the byte layout of   *)
(* the same bytes as runs of equally wide UTF-8 characters, so that        *)
(* byte-indexed slicing can be computed on bodies of thousands of bytes.   *)
(* Option<String> is NoneStr or SomeStr(s).                                *)
(***************************************************************************)
EXTENDS Integers, Sequences, FiniteSets, TLC

VARIABLES clients, builders, server, pc, op, sent, last, all_items, page, outcome

vars == <<clients, builders, server, pc, op, sent, last, all_items, page, outcome>>

\* ------------------------------------------------------------------ bounds

\* Largest number of client values alive at once.
MaxClients == 2
\* Largest number of builder values alive at once.
MaxBuilders == 3
\* Largest total_items of the well-behaved paging server.
MaxN == 5
\* Largest page size of the well-behaved paging server.
MaxP == 3
\* Page requests a get_all run may issue against an arbitrary server before
\* the model stops following it.
MaxAnyPages == 3
\* Longest items array an arbitrary server puts in one page.
MaxPageItems == 2
\* Longest message of an AuthError::Other, in characters.
MaxMsgLen == 2

\* ------------------------------------------------------- program constants

\* cmp::min(2000, body.len())
SnippetLimit == 2000
\* let per_page = 1000; in both get_all loops
GetAllPerPage == 1000
\* per_page: 100 in every list() factory
DefaultPerPage == 100
\* page: 1 in every list() factory
DefaultPage == 1
\* result.status() == 204
NoContent == 204
\* StatusCode::OK
StatusOk == 200
\* code == 404
StatusNotFound == 404

\* ------------------------------------------------------------------ strings

NoneStr == [k |-> "None"]
SomeStr(s) == [k |-> "Some", s |-> s]

Digit(d) ==
    CASE d = 0 -> "0" [] d = 1 -> "1" [] d = 2 -> "2" [] d = 3 -> "3"
      [] d = 4 -> "4" [] d = 5 -> "5" [] d = 6 -> "6" [] d = 7 -> "7"
      [] d = 8 -> "8" [] d = 9 -> "9"

RECURSIVE NatToString(_)
NatToString(n) ==
    IF n < 10 THEN <<Digit(n)>> ELSE NatToString(n \div 10) \o <<Digit(n % 10)>>

\* i32::to_string
I32ToString(n) ==
    IF n < 0 THEN <<"-">> \o NatToString(-n) ELSE NatToString(n)

DigitValue(c) ==
    CASE c = "0" -> 0 [] c = "1" -> 1 [] c = "2" -> 2 [] c = "3" -> 3
      [] c = "4" -> 4 [] c = "5" -> 5 [] c = "6" -> 6 [] c = "7" -> 7
      [] c = "8" -> 8 [] c = "9" -> 9

RECURSIVE ParseNat(_)
\* The server's reading of a decimal query value.
ParseNat(s) ==
    IF s = <<>> THEN 0
    ELSE 10 * ParseNat(SubSeq(s, 1, Len(s) - 1)) + DigitValue(s[Len(s)])

\* ------------------------------------------------------ body byte layouts

\* A run of n characters, each w bytes wide in UTF-8.
Run(w, n) == [w |-> w, n |-> n]

RECURSIVE ByteLen(_)
\* String::len(): the length in bytes.
ByteLen(text) ==
    IF text = <<>> THEN 0
    ELSE text[1].w * text[1].n + ByteLen(Tail(text))

RECURSIVE IsCharBoundary(_, _)
\* str::is_char_boundary(i) for 0 <= i <= len.
IsCharBoundary(text, i) ==
    IF i = 0 \/ text = <<>> THEN i = 0
    ELSE IF i >= text[1].w * text[1].n
         THEN IsCharBoundary(Tail(text), i - text[1].w * text[1].n)
         ELSE i % text[1].w = 0

RECURSIVE BytePrefix(_, _)
\* &text[..i] for a char boundary i: the characters that lie in the first i bytes.
BytePrefix(text, i) ==
    IF i = 0 \/ text = <<>> THEN <<>>
    ELSE IF i >= text[1].w * text[1].n
         THEN <<text[1]>> \o BytePrefix(Tail(text), i - text[1].w * text[1].n)
         ELSE <<Run(text[1].w, i \div text[1].w)>>

Min(a, b) == IF a < b THEN a ELSE b

\* ------------------------------------------------------------ JSON documents

\* Bytes that are not a JSON document.
Invalid == [k |-> "invalid"]
JNull == [k |-> "null"]
JStr(s) == [k |-> "str", s |-> s]
JNum(n) == [k |-> "num", n |-> n]
JBool(b) == [k |-> "bool", b |-> b]
JArr(a) == [k |-> "arr", a |-> a]
\* An object keeps its members in document order: m is a sequence of Member.
JObj(m) == [k |-> "obj", m |-> m]
Member(key, val) == [key |-> key, val |-> val]

\* --------------------------------------------- serde types and their decoding

TString == [ty |-> "String"]
TI32 == [ty |-> "i32"]
TBool == [ty |-> "bool"]
TDateTime == [ty |-> "DateTime"]
TOptString == [ty |-> "OptString"]
TVec(t) == [ty |-> "Vec", of |-> t]
TMap(t) == [ty |-> "Map", of |-> t]
\* fields: a sequence of Field, in declaration order.
TStruct(fields) == [ty |-> "struct", fields |-> fields]
\* A struct field `name` read from the JSON key `key` (serde rename).
Field(name, key, t) == [name |-> name, key |-> key, t |-> t]

\* Timestamps chrono accepts as DateTime<Utc>.
ValidDates == {<<"2024-01-01T00:00:00Z">>}

I32Min == -2147483647 - 1
I32Max == 2147483647

DecOk(v) == [ok |-> TRUE, v |-> v]
\* path: the segments serde_path_to_error tracks down to the failure.
DecErr(path, why) == [ok |-> FALSE, path |-> path, why |-> why]
KeySeg(key) == [seg |-> "key", key |-> key]
IdxSeg(i) == [seg |-> "idx", i |-> i]

RECURSIVE PathSegments(_, _)
PathSegments(path, i) ==
    IF i > Len(path) THEN <<>>
    ELSE (IF path[i].seg = "idx"
          THEN <<"[">> \o NatToString(path[i].i) \o <<"]">>
          ELSE (IF i > 1 THEN <<".">> ELSE <<>>) \o <<path[i].key>>)
         \o PathSegments(path, i + 1)
\* de_err.path().to_string(): keys joined by ".", indices as "[i]", "." when empty.
PathToString(path) == IF path = <<>> THEN <<".">> ELSE PathSegments(path, 1)

FieldsWithKey(fields, key) == {i \in DOMAIN fields : fields[i].key = key}
MissingFields(fields, acc) ==
    {i \in DOMAIN fields : fields[i].name \notin DOMAIN acc /\ fields[i].t.ty # "OptString"}
SetMin(S) == CHOOSE x \in S : \A y \in S : x <= y

RECURSIVE Decode(_, _)
RECURSIVE DecodeFields(_, _, _, _)
RECURSIVE DecodeVec(_, _, _, _)
RECURSIVE DecodeMap(_, _, _, _)

\* The derived Deserialize of a struct reading an object: members in document
\* order, unknown keys skipped, a repeated key refused, absent Option fields None,
\* any other absent field refused.
DecodeFields(m, i, fields, acc) ==
    IF i > Len(m)
    THEN IF MissingFields(fields, acc) # {}
         THEN DecErr(<<>>, "missing field")
         ELSE DecOk([n \in {fields[j].name : j \in DOMAIN fields} |->
                        IF n \in DOMAIN acc THEN acc[n] ELSE NoneStr])
    ELSE LET hit == FieldsWithKey(fields, m[i].key) IN
         IF hit = {} THEN DecodeFields(m, i + 1, fields, acc)
         ELSE LET f == fields[SetMin(hit)] IN
              IF f.name \in DOMAIN acc THEN DecErr(<<KeySeg(m[i].key)>>, "duplicate field")
              ELSE LET r == Decode(m[i].val, f.t) IN
                   IF ~r.ok THEN DecErr(<<KeySeg(m[i].key)>> \o r.path, r.why)
                   ELSE DecodeFields(m, i + 1, fields, (f.name :> r.v) @@ acc)

DecodeVec(a, i, t, acc) ==
    IF i > Len(a) THEN DecOk(acc)
    ELSE LET r == Decode(a[i], t) IN
         IF ~r.ok THEN DecErr(<<IdxSeg(i - 1)>> \o r.path, r.why)
         ELSE DecodeVec(a, i + 1, t, Append(acc, r.v))

\* HashMap<String, T>: a later member replaces an earlier one of the same key.
DecodeMap(m, i, t, acc) ==
    IF i > Len(m) THEN DecOk(acc)
    ELSE LET r == Decode(m[i].val, t) IN
         IF ~r.ok THEN DecErr(<<KeySeg(m[i].key)>> \o r.path, r.why)
         ELSE DecodeMap(m, i + 1, t, (m[i].key :> r.v) @@ acc)

\* serde_json reading `doc` as a value of type t.
Decode(doc, t) ==
    CASE doc.k = "invalid" -> DecErr(<<>>, "syntax")
      [] doc.k # "invalid" /\ t.ty = "String" ->
            IF doc.k = "str" THEN DecOk(doc.s) ELSE DecErr(<<>>, "invalid type")
      [] doc.k # "invalid" /\ t.ty = "DateTime" ->
            IF doc.k # "str" THEN DecErr(<<>>, "invalid type")
            ELSE IF doc.s \in ValidDates THEN DecOk(doc.s)
            ELSE DecErr(<<>>, "invalid value")
      [] doc.k # "invalid" /\ t.ty = "i32" ->
            IF doc.k # "num" THEN DecErr(<<>>, "invalid type")
            ELSE IF doc.n >= I32Min /\ doc.n <= I32Max THEN DecOk(doc.n)
            ELSE DecErr(<<>>, "invalid value")
      [] doc.k # "invalid" /\ t.ty = "bool" ->
            IF doc.k = "bool" THEN DecOk(doc.b) ELSE DecErr(<<>>, "invalid type")
      [] doc.k # "invalid" /\ t.ty = "OptString" ->
            IF doc.k = "null" THEN DecOk(NoneStr)
            ELSE IF doc.k = "str" THEN DecOk(SomeStr(doc.s))
            ELSE DecErr(<<>>, "invalid type")
      [] doc.k # "invalid" /\ t.ty = "Vec" ->
            IF doc.k = "arr" THEN DecodeVec(doc.a, 1, t.of, <<>>)
            ELSE DecErr(<<>>, "invalid type")
      [] doc.k # "invalid" /\ t.ty = "Map" ->
            IF doc.k = "obj" THEN DecodeMap(doc.m, 1, t.of, <<>>)
            ELSE DecErr(<<>>, "invalid type")
      [] doc.k # "invalid" /\ t.ty = "struct" ->
            IF doc.k = "obj" THEN DecodeFields(doc.m, 1, t.fields, <<>>)
            ELSE DecErr(<<>>, "invalid type")

\* ------------------------------------------------- the wire types of the crate

AuthSuccessResponse == TStruct(<<Field("token", "token", TString)>>)

HealthCheckResponse ==
    TStruct(<<Field("code", "code", TI32), Field("message", "message", TString)>>)

ValidationError ==
    TStruct(<<Field("code", "code", TString), Field("message", "message", TString)>>)

ErrorResponse ==
    TStruct(<<Field("data", "data", TMap(ValidationError)),
              Field("message", "message", TString),
              Field("status", "status", TI32)>>)

\* The caller's record type T of the record operations: here a record with an id.
RecordT == TStruct(<<Field("id", "id", TString)>>)

\* RecordList<T>, CollectionList and LogList: #[serde(rename_all = "camelCase")]
ListOf(t) ==
    TStruct(<<Field("page", "page", TI32),
              Field("per_page", "perPage", TI32),
              Field("total_items", "totalItems", TI32),
              Field("items", "items", TVec(t))>>)

CreateResponse ==
    TStruct(<<Field("collection_name", "@collectionName", TOptString),
              Field("collection_id", "@collectionId", TOptString),
              Field("id", "id", TString),
              Field("updated", "updated", TString),
              Field("created", "created", TString)>>)

CollectionField ==
    TStruct(<<Field("system", "system", TBool),
              Field("id", "id", TString),
              Field("name", "name", TString),
              Field("type", "type", TString),
              Field("required", "required", TBool),
              Field("unique", "unique", TBool)>>)

Collection ==
    TStruct(<<Field("id", "id", TString),
              Field("created", "created", TDateTime),
              Field("type", "type", TString),
              Field("updated", "updated", TDateTime),
              Field("name", "name", TString),
              Field("schema", "schema", TVec(CollectionField))>>)

LogListItem ==
    TStruct(<<Field("id", "id", TString),
              Field("created", "created", TDateTime),
              Field("updated", "updated", TDateTime),
              Field("url", "url", TString),
              Field("method", "method", TString),
              Field("status", "status", TI32),
              Field("ip", "ip", TOptString),
              Field("referer", "referer", TString),
              Field("user_agent", "userAgent", TString),
              Field("meta", "meta", TMap(TString))>>)

LogStatDataPoint ==
    TStruct(<<Field("total", "total", TI32), Field("date", "date", TString)>>)


\* ------------------------------------------------------------------ results

Ok(v) == [t |-> "Ok", v |-> v]
Err(e) == [t |-> "Err", e |-> e]
\* The call does not return: the thread panics.
Panic == [t |-> "Panic"]
\* No call has returned yet.
NoOutcome == [t |-> "None"]

\* anyhow::Error
Anyhow(what) == [kind |-> "anyhow", what |-> what]

\* ------------------------------------------------------------------ client.rs

NoAuth == "NoAuth"
Auth == "Auth"

\* Client::<NoAuth>::new
ClientNew(base_url) ==
    [base_url |-> base_url, auth_token |-> NoneStr, state |-> NoAuth]

\* ------------------------------------------------------------------- httpc.rs

Header(name, value) == [name |-> name, value |-> value]
Param(name, value) == [name |-> name, value |-> value]
NoBody == [k |-> "None"]
\* A request body: the JSON text serde_json::to_string gives for `doc`.
JsonBody(doc) == [k |-> "Some", doc |-> doc]
NoQuery == [k |-> "None"]
SomeQuery(pairs) == [k |-> "Some", pairs |-> pairs]

\* reqwest's RequestBuilder after http.get(url), http.post(url), ...
RequestBuilder(method, url) ==
    [method |-> method, url |-> url, headers |-> <<>>, query |-> <<>>, body |-> NoBody]

WithHeader(builder, name, value) ==
    [builder EXCEPT !.headers = Append(@, Header(name, value))]

\* A mutation of attach_auth_info: the token is never attached.
attach_auth_info_never(builder, client) == builder

\* Httpc::attach_auth_info
attach_auth_info(builder, client) ==
    IF client.auth_token.k = "Some"
    THEN WithHeader(builder, "Authorization", client.auth_token.s)
    ELSE builder

\* Httpc::get: the request it sends.
HttpcGet(client, url, query_params) ==
    LET request == attach_auth_info(RequestBuilder("GET", url), client) IN
    IF query_params.k = "Some"
    THEN [request EXCEPT !.query = @ \o query_params.pairs]
    ELSE request

\* Httpc::post: the request it sends.
HttpcPost(client, url, body_content) ==
    LET request == attach_auth_info(
            WithHeader(RequestBuilder("POST", url), "Content-Type", <<"application/json">>),
            client) IN
    [request EXCEPT !.body = body_content]

\* Httpc::delete: the request it sends.
HttpcDelete(client, url) ==
    attach_auth_info(RequestBuilder("DELETE", url), client)

\* Httpc::patch: the request it sends.
HttpcPatch(client, url, body_content) ==
    LET request == attach_auth_info(
            WithHeader(RequestBuilder("PATCH", url), "Content-Type", <<"application/json">>),
            client) IN
    [request EXCEPT !.body = body_content]

\* ------------------------------------------- what request.send().await gives

\* send() fails: connection refused, timeout, DNS or TLS failure.
TransportFailure == [t |-> "Transport"]
Response(status, body) == [t |-> "Resp", status |-> status, body |-> body]
\* A body that arrived whole.
Body(json, text) == [k |-> "body", json |-> json, text |-> text]
\* A body whose read fails after the status line arrived.
Unreadable == [k |-> "unreadable"]

\* StatusCode::is_success
is_success(status) == status >= 200 /\ status < 300
\* StatusCode::is_client_error
is_client_error(status) == status >= 400 /\ status < 500

\* Response::json::<T>(): reads the whole body and decodes it, whatever the status.
ResponseJson(resp, t) ==
    IF resp.body.k = "unreadable" THEN DecErr(<<>>, "body read")
    ELSE Decode(resp.body.json, t)

\* let snippet_len = cmp::min(2000, body.len()); &body[..snippet_len]
\* Slicing a str off a char boundary panics.
Snippet(text) ==
    LET snippet_len == Min(SnippetLimit, ByteLen(text)) IN
    IF IsCharBoundary(text, snippet_len)
    THEN [ok |-> TRUE, text |-> BytePrefix(text, snippet_len)]
    ELSE [ok |-> FALSE]


\* ------------------------------------------------ client.rs: authentication

\* AuthError::Validation(ErrorResponse)
AuthValidation(err) == [kind |-> "Validation", payload |-> err]
\* AuthError::Other(String)
AuthOther(msg) == [kind |-> "Other", msg |-> msg]

\* "<no body>"
NoBodyText == <<Run(1, 9)>>

\* response.text().await.unwrap_or_else(|_| "<no body>".into())
TextOrNoBody(resp) ==
    IF resp.body.k = "unreadable" THEN NoBodyText ELSE resp.body.text

\* The request auth_with_password posts.
AuthRequest(self, collection, identifier, secret) ==
    HttpcPost(self,
              self.base_url \o <<"/api/collections/">> \o collection
                  \o <<"/auth-with-password">>,
              JsonBody(JObj(<<Member("identity", JStr(identifier)),
                              Member("password", JStr(secret))>>)))

\* A mutation of AuthenticatedClient: the new client loses the base_url.
AuthenticatedClientNoUrl(self, token) ==
    [base_url |-> <<>>, state |-> Auth, auth_token |-> SomeStr(token)]

\* Client { base_url: self.base_url.clone(), state: Auth, auth_token: Some(token) }
AuthenticatedClient(self, token) ==
    [base_url |-> self.base_url, state |-> Auth, auth_token |-> SomeStr(token)]

\* The StatusCode::OK arm.
AuthOnOk(self, resp) ==
    LET raw_response == ResponseJson(resp, AuthSuccessResponse) IN
    IF raw_response.ok THEN Ok(AuthenticatedClient(self, raw_response.v.token))
    ELSE Err(AuthOther([what |-> "decode", why |-> raw_response.why]))

\* A mutation of AuthOnClientError: a body that is no ErrorResponse is reported
\* as a Validation error made up from the status.
AuthOnClientErrorLenient(resp) ==
    LET err_body == ResponseJson(resp, ErrorResponse) IN
    IF err_body.ok THEN Err(AuthValidation(err_body.v))
    ELSE Err(AuthValidation([data |-> <<>>, message |-> <<>>, status |-> resp.status]))

\* The `status if status.is_client_error()` arm.
AuthOnClientError(resp) ==
    LET err_body == ResponseJson(resp, ErrorResponse) IN
    IF err_body.ok THEN Err(AuthValidation(err_body.v))
    ELSE Err(AuthOther([what |-> "decode", why |-> err_body.why]))

\* The `other` arm.
AuthOnOther(resp) ==
    Err(AuthOther([what |-> "Unexpected status", status |-> resp.status,
                   body |-> TextOrNoBody(resp)]))

\* A mutation of AuthArm: every 2xx status takes the OK arm.
AuthArmAny2xx(status) ==
    IF is_success(status) THEN "ok"
    ELSE IF is_client_error(status) THEN "client_error"
    ELSE "other"

\* A mutation of AuthArm: every status from 400 up takes the client-error arm.
AuthArmFrom400(status) ==
    IF status = StatusOk THEN "ok"
    ELSE IF status >= 400 THEN "client_error"
    ELSE "other"

\* match response.status(): the arm taken.
AuthArm(status) ==
    IF status = StatusOk THEN "ok"
    ELSE IF is_client_error(status) THEN "client_error"
    ELSE "other"

\* Client::<NoAuth>::auth_with_password: what it returns for the response `resp`.
\* Each `?` turns an anyhow::Error or a reqwest::Error into AuthError::Other.
AuthOutcome(self, resp) ==
    IF resp.t = "Transport" THEN Err(AuthOther([what |-> "transport"]))
    ELSE CASE AuthArm(resp.status) = "ok" -> AuthOnOk(self, resp)
           [] AuthArm(resp.status) = "client_error" -> AuthOnClientError(resp)
           [] AuthArm(resp.status) = "other" -> AuthOnOther(resp)

\* Client::health_check: the request.
HealthCheckRequest(self) ==
    HttpcGet(self, self.base_url \o <<"/api/health">>, NoQuery)

\* response.json::<T>().await? of the calls that never look at the status.
JsonOutcome(resp, t) ==
    LET r == ResponseJson(resp, t) IN
    IF r.ok THEN Ok(r.v) ELSE Err(Anyhow([what |-> "decode", why |-> r.why]))

\* Client::health_check: what it returns.
HealthCheckOutcome(self, resp) ==
    IF resp.t = "Transport" THEN Err(Anyhow([what |-> "Network error"]))
    ELSE JsonOutcome(resp, HealthCheckResponse)


\* ------------------------------------------------------------- collections.rs

OptParam(name, opt) == IF opt.k = "Some" THEN <<Param(name, opt.s)>> ELSE <<>>

\* CollectionsManager::list
CollectionsList(client) ==
    [client |-> client, filter |-> NoneStr, sort |-> NoneStr, expand |-> NoneStr,
     per_page |-> DefaultPerPage, page |-> DefaultPage]

\* CollectionsManager::view
CollectionsView(client, name) == [client |-> client, name |-> name]

\* CollectionListRequestBuilder::call: the request.
CollectionListRequest(self, client) ==
    HttpcGet(client, client.base_url \o <<"/api/collections">>,
             SomeQuery(OptParam("filter", self.filter) \o OptParam("sort", self.sort)
                       \o OptParam("expand", self.expand)
                       \o <<Param("per_page", I32ToString(self.per_page)),
                            Param("page", I32ToString(self.page))>>))

\* CollectionListRequestBuilder::call: what it returns.
CollectionListOutcome(self, resp) ==
    IF resp.t = "Transport" THEN Err(Anyhow([what |-> "transport"]))
    ELSE JsonOutcome(resp, ListOf(Collection))

\* CollectionViewRequestBuilder::call: the request.
CollectionViewRequest(self, client) ==
    HttpcGet(client, client.base_url \o <<"/api/collections/">> \o self.name, NoQuery)

\* CollectionViewRequestBuilder::call: what it returns.
CollectionViewOutcome(self, resp) ==
    IF resp.t = "Transport" THEN Err(Anyhow([what |-> "transport"]))
    ELSE JsonOutcome(resp, Collection)

\* -------------------------------------------------------------------- logs.rs

\* LogsManager::list
LogsList(client) ==
    [client |-> client, page |-> DefaultPage, per_page |-> DefaultPerPage,
     sort |-> NoneStr, filter |-> NoneStr]

\* LogsManager::view
LogsView(client, id) == [client |-> client, id |-> id]

\* LogsManager::statistics
LogsStatistics(client) == [client |-> client, filter |-> NoneStr]

\* LogListRequestBuilder::call: the request.
LogListRequest(self, client) ==
    HttpcGet(client, client.base_url \o <<"/api/logs/requests">>,
             SomeQuery(OptParam("sort", self.sort) \o OptParam("filter", self.filter)
                       \o <<Param("perPage", I32ToString(self.per_page)),
                            Param("page", I32ToString(self.page))>>))

\* LogListRequestBuilder::call: what it returns.
LogListOutcome(self, resp) ==
    IF resp.t = "Transport" THEN Err(Anyhow([what |-> "transport"]))
    ELSE JsonOutcome(resp, ListOf(LogListItem))

\* LogViewRequestBuilder::call: the request.
LogViewRequest(self, client) ==
    HttpcGet(client, client.base_url \o <<"/api/logs/requests/">> \o self.id, NoQuery)

\* LogViewRequestBuilder::call: what it returns.
LogViewOutcome(self, resp) ==
    IF resp.t = "Transport" THEN Err(Anyhow([what |-> "transport"]))
    ELSE JsonOutcome(resp, LogListItem)

\* LogStatisticsRequestBuilder::call: the request.
LogStatisticsRequest(self, client) ==
    HttpcGet(client, client.base_url \o <<"/api/logs/requests/stats">>,
             SomeQuery(OptParam("filter", self.filter)))

\* LogStatisticsRequestBuilder::call: what it returns.
LogStatisticsOutcome(self, resp) ==
    IF resp.t = "Transport" THEN Err(Anyhow([what |-> "transport"]))
    ELSE JsonOutcome(resp, TVec(LogStatDataPoint))


\* --------------------------------------------------- the list builders' setters

\* CollectionListRequestBuilder::filter
CollectionListFilter(self, filter_opts) == [self EXCEPT !.filter = SomeStr(filter_opts)]
\* CollectionListRequestBuilder::per_page
CollectionListPerPage(self, per_page_count) == [self EXCEPT !.per_page = per_page_count]
\* CollectionListRequestBuilder::page
CollectionListPage(self, page_count) == [self EXCEPT !.page = page_count]
\* CollectionListRequestBuilder::sort
CollectionListSort(self, sort_opts) == [self EXCEPT !.sort = SomeStr(sort_opts)]
\* CollectionListRequestBuilder::expand
CollectionListExpand(self, expand_opts) == [self EXCEPT !.expand = SomeStr(expand_opts)]

\* LogListRequestBuilder::page
LogListPage(self, page_count) == [self EXCEPT !.page = page_count]
\* LogListRequestBuilder::per_page
LogListPerPage(self, per_page_count) == [self EXCEPT !.per_page = per_page_count]
\* LogListRequestBuilder::filter
LogListFilter(self, filter_opts) == [self EXCEPT !.filter = SomeStr(filter_opts)]
\* LogListRequestBuilder::sort
LogListSort(self, sort_opts) == [self EXCEPT !.sort = SomeStr(sort_opts)]

\* RecordsManager::list
RecordsList(client, name) ==
    [client |-> client, collection_name |-> name, filter |-> NoneStr, sort |-> NoneStr,
     expand |-> NoneStr, page |-> DefaultPage, per_page |-> DefaultPerPage]

\* RecordsListRequestBuilder::filter
RecordsListFilter(self, filter_opts) == [self EXCEPT !.filter = SomeStr(filter_opts)]
\* RecordsListRequestBuilder::sort
RecordsListSort(self, sort_opts) == [self EXCEPT !.sort = SomeStr(sort_opts)]
\* RecordsListRequestBuilder::expand
RecordsListExpand(self, expand_opts) == [self EXCEPT !.expand = SomeStr(expand_opts)]

\* A mutation of RecordsListPage: the new builder is made from a fresh list()
\* instead of a clone of self.
RecordsListPageFromFresh(self, page_no) ==
    [RecordsList(self.client, self.collection_name) EXCEPT !.page = page_no]

\* RecordsListRequestBuilder::page
RecordsListPage(self, page_no) == [self EXCEPT !.page = page_no]
\* RecordsListRequestBuilder::per_page
RecordsListPerPage(self, per_page_no) == [self EXCEPT !.per_page = per_page_no]

\* ------------------------------------------------------------------ records.rs

\* RecordsManager::view
RecordsView(client, name, identifier) ==
    [client |-> client, collection_name |-> name, identifier |-> identifier]

\* RecordsManager::destroy
RecordsDestroy(client, name, identifier) ==
    [identifier |-> identifier, client |-> client, collection_name |-> name]

\* RecordsManager::create
RecordsCreate(client, name, record) ==
    [record |-> record, client |-> client, collection_name |-> name]

\* RecordsManager::update
RecordsUpdate(client, name, identifier, record) ==
    [client |-> client, collection_name |-> name, id |-> identifier, record |-> record]

\* serde_json::to_string(&self.record) for the record type RecordT.
SerializeRecord(record) == JsonBody(JObj(<<Member("id", JStr(record.id))>>))

RecordsUrl(client, collection_name) ==
    client.base_url \o <<"/api/collections/">> \o collection_name \o <<"/records">>

RecordUrl(client, collection_name, identifier) ==
    client.base_url \o <<"/api/collections/">> \o collection_name \o <<"/records/">>
        \o identifier

\* The query both the list call and the builder's get_all build.
RecordsQuery(self, per_page_no, page_no) ==
    OptParam("filter", self.filter) \o OptParam("sort", self.sort)
        \o OptParam("expand", self.expand)
        \o <<Param("perPage", I32ToString(per_page_no)),
             Param("page", I32ToString(page_no))>>

\* RecordsListRequestBuilder::call: the request.
RecordsListRequest(self, client) ==
    HttpcGet(client, RecordsUrl(client, self.collection_name),
             SomeQuery(RecordsQuery(self, self.per_page, self.page)))

\* RecordsListRequestBuilder::call: what it returns.
RecordsListOutcome(self, client, resp) ==
    LET url == RecordsUrl(client, self.collection_name) IN
    IF resp.t = "Transport" THEN Err(Anyhow([what |-> "GET failed to execute"]))
    ELSE IF resp.body.k = "unreadable"
    THEN Err(Anyhow([what |-> "Reading response body failed"]))
    ELSE LET snippet == Snippet(resp.body.text) IN
         IF ~is_success(resp.status)
         THEN IF ~snippet.ok THEN Panic
              ELSE Err(Anyhow([what |-> "Request failed", url |-> url,
                               status |-> resp.status, snippet |-> snippet.text]))
         ELSE LET parsed == Decode(resp.body.json, ListOf(RecordT)) IN
              IF parsed.ok THEN Ok(parsed.v)
              ELSE IF ~snippet.ok THEN Panic
              ELSE Err(Anyhow([what |-> "JSON decode error", path |-> PathToString(parsed.path),
                               why |-> parsed.why, snippet |-> snippet.text]))

\* RecordViewError::NotFound
NotFound(collection, identifier, body_snippet) ==
    [kind |-> "NotFound", collection |-> collection, identifier |-> identifier,
     body_snippet |-> body_snippet]
\* RecordViewError::Http
Http(status, url, body_snippet) ==
    [kind |-> "Http", status |-> status, url |-> url, body_snippet |-> body_snippet]
\* RecordViewError::Decode
DecodeError(path, source, body_snippet) ==
    [kind |-> "Decode", path |-> path, source |-> source, body_snippet |-> body_snippet]
\* RecordViewError::Transport
Transport(what) == [kind |-> "Transport", what |-> what]

\* RecordViewRequestBuilder::call: the request.
RecordViewRequest(self, client) ==
    HttpcGet(client, RecordUrl(client, self.collection_name, self.identifier), NoQuery)

\* RecordViewRequestBuilder::call: what it returns.
RecordViewOutcome(self, client, resp) ==
    LET url == RecordUrl(client, self.collection_name, self.identifier) IN
    IF resp.t = "Transport" THEN Err(Transport("GET failed to execute"))
    ELSE IF resp.body.k = "unreadable" THEN Err(Transport("Reading response body failed"))
    ELSE LET snippet == Snippet(resp.body.text) IN
         IF ~is_success(resp.status)
         THEN IF ~snippet.ok THEN Panic
              ELSE IF resp.status = StatusNotFound
              THEN Err(NotFound(self.collection_name, self.identifier, snippet.text))
              ELSE Err(Http(resp.status, url, snippet.text))
         ELSE LET parsed == Decode(resp.body.json, RecordT) IN
              IF parsed.ok THEN Ok(parsed.v)
              ELSE IF ~snippet.ok THEN Panic
              ELSE Err(DecodeError(PathToString(parsed.path), parsed.why, snippet.text))

\* RecordDestroyRequestBuilder::call: the request.
RecordDestroyRequest(self, client) ==
    HttpcDelete(client, RecordUrl(client, self.collection_name, self.identifier))

\* ()
Unit == [k |-> "unit"]

\* A mutation of DestroySucceeded: any 2xx status counts.
DestroySucceededAny2xx(status) == is_success(status)

\* result.status() == 204
DestroySucceeded(status) == status = NoContent

\* RecordDestroyRequestBuilder::call: what it returns.
RecordDestroyOutcome(self, resp) ==
    IF resp.t = "Transport" THEN Err(Anyhow([what |-> "error"]))
    ELSE IF DestroySucceeded(resp.status) THEN Ok(Unit)
    ELSE Err(Anyhow([what |-> "Failed to delete"]))

\* RecordCreateRequestBuilder::call: the request.
RecordCreateRequest(self, client) ==
    HttpcPost(client, RecordsUrl(client, self.collection_name), SerializeRecord(self.record))

\* RecordCreateRequestBuilder::call: what it returns.
RecordCreateOutcome(self, resp) ==
    IF resp.t = "Transport" THEN Err(Anyhow([what |-> "error"]))
    ELSE JsonOutcome(resp, CreateResponse)

\* RecordUpdateRequestBuilder::call: the request.
RecordUpdateRequest(self, client) ==
    HttpcPatch(client, RecordUrl(client, self.collection_name, self.id),
               SerializeRecord(self.record))

\* RecordUpdateRequestBuilder::call: what it returns: the caller's own record
\* once the body decodes as a CreateResponse.
RecordUpdateOutcome(self, resp) ==
    IF resp.t = "Transport" THEN Err(Anyhow([what |-> "error"]))
    ELSE LET r == JsonOutcome(resp, CreateResponse) IN
         IF r.t = "Ok" THEN Ok(self.record) ELSE r


\* ---------------------------------------------------- records.rs: the get_all loops

\* A mutation of GetAllBreak: the loop also stops once the count passes the total.
GetAllBreakAtLeast(len, total_items) == len >= total_items

\* if all_items.len() == page_resp.total_items as usize { break; }
\* `as usize` wraps a negative i32 to a value above 2^63, which no Vec length
\* reaches: the comparison is true only of a total that is not negative.
GetAllBreak(len, total_items) == total_items >= 0 /\ len = total_items

\* A mutation of Extend: items already collected are not collected again.
ExtendDistinct(acc, items) ==
    acc \o SelectSeq(items, LAMBDA x : \A i \in DOMAIN acc : acc[i] # x)

\* all_items.extend(page_resp.items.into_iter())
Extend(acc, items) == acc \o items

\* A mutation of NextPage: the page number is not advanced.
NextPageStays(page_no) == page_no

\* page += 1
NextPage(page_no) == page_no + 1

\* The builder one iteration of RecordsManager::get_all calls:
\* self.list().page(page).per_page(per_page)
ManagerPageBuilder(self, page_no) ==
    RecordsListPerPage(RecordsListPage(RecordsList(self.client, self.collection_name),
                                       page_no),
                       GetAllPerPage)

\* A mutation of GetAllPageRequest: the builder's own page and per_page are sent.
GetAllPageRequestAsHeld(entry, self, client, page_no) ==
    IF entry = "manager"
    THEN RecordsListRequest(ManagerPageBuilder(self, page_no), client)
    ELSE RecordsListRequest(self, client)

\* The request one iteration issues.  entry = "manager": RecordsManager::get_all;
\* entry = "builder": RecordsListRequestBuilder::get_all.
GetAllPageRequest(entry, self, client, page_no) ==
    IF entry = "manager"
    THEN RecordsListRequest(ManagerPageBuilder(self, page_no), client)
    ELSE HttpcGet(client, RecordsUrl(client, self.collection_name),
                  SomeQuery(RecordsQuery(self, GetAllPerPage, page_no)))

\* The page response one iteration obtains, or the error its `?` returns.
GetAllPageOutcome(entry, self, client, page_no, resp) ==
    IF entry = "manager"
    THEN RecordsListOutcome(ManagerPageBuilder(self, page_no), client, resp)
    ELSE IF resp.t = "Transport" THEN Err(Anyhow([what |-> "transport"]))
    ELSE JsonOutcome(resp, ListOf(RecordT))

\* --------------------------------------------------------------- the environment

BaseUrls == {<<"http://a">>, <<"http://b">>}
Tokens == {<<"tokA">>, <<"tokB">>}
CollectionNames == {<<"posts">>}
Identifiers == {<<"xyz">>}
Secrets == {<<"pw">>}
\* The caller's records, of type RecordT.
Records == {[id |-> <<"r1">>]}
OptionValues == {<<"x">>, <<"y">>}
PageValues == {2, 7}
Statuses == {200, 201, 204, 301, 400, 404, 500}

ShortText == <<Run(1, 20)>>
\* Body layouts around the snippet limit: ASCII only, and with wider characters
\* before, across and after byte 2000.
Texts ==
    {<<>>, ShortText, <<Run(1, 2000)>>, <<Run(1, 2001)>>,
     <<Run(1, 1999), Run(2, 1)>>, <<Run(1, 1999), Run(2, 1), Run(1, 5)>>,
     <<Run(2, 1500)>>, <<Run(3, 700)>>}

TokenDoc(token) == JObj(<<Member("token", JStr(token))>>)
\* A token with the record the server also sends.
TokenRecordDoc(token) ==
    JObj(<<Member("record", JObj(<<Member("id", JStr(<<"u1">>))>>)),
           Member("token", JStr(token))>>)
BadTokenDoc == JObj(<<Member("token", JNum(7))>>)
\* An ErrorResponse with one field error.
ErrorDoc ==
    JObj(<<Member("status", JNum(400)),
           Member("message", JStr(<<"Failed to authenticate.">>)),
           Member("data", JObj(<<Member("identity",
                JObj(<<Member("code", JStr(<<"validation_required">>)),
                       Member("message", JStr(<<"Missing required value.">>))>>))>>))>>)
\* The error body of a server that names the status `code`.
CodeErrorDoc ==
    JObj(<<Member("code", JNum(404)),
           Member("message", JStr(<<"not found">>)),
           Member("data", JObj(<<>>))>>)
RecordDoc(id) == JObj(<<Member("id", JStr(id))>>)
\* A record whose id is a number where T has a String.
BadRecordDoc == JObj(<<Member("id", JNum(3))>>)
CreatedDoc ==
    JObj(<<Member("id", JStr(<<"r1">>)), Member("created", JStr(<<"t0">>)),
           Member("updated", JStr(<<"t0">>))>>)
PageDoc(page_no, per_page_no, total_items, items) ==
    JObj(<<Member("page", JNum(page_no)), Member("perPage", JNum(per_page_no)),
           Member("totalItems", JNum(total_items)), Member("items", JArr(items))>>)
LogItemDoc ==
    JObj(<<Member("id", JStr(<<"l1">>)),
           Member("created", JStr(<<"2024-01-01T00:00:00Z">>)),
           Member("updated", JStr(<<"2024-01-01T00:00:00Z">>)),
           Member("url", JStr(<<"/api/health">>)), Member("method", JStr(<<"GET">>)),
           Member("status", JNum(200)), Member("ip", JNull),
           Member("referer", JStr(<<>>)), Member("userAgent", JStr(<<"ua">>)),
           Member("meta", JObj(<<>>))>>)
CollectionDoc ==
    JObj(<<Member("id", JStr(<<"c1">>)),
           Member("created", JStr(<<"2024-01-01T00:00:00Z">>)),
           Member("type", JStr(<<"base">>)),
           Member("updated", JStr(<<"2024-01-01T00:00:00Z">>)),
           Member("name", JStr(<<"posts">>)),
           Member("schema", JArr(<<>>))>>)
StatsDoc == JArr(<<JObj(<<Member("total", JNum(3)), Member("date", JStr(<<"d">>))>>)>>)

\* Every response with a status from Statuses and a body from `bodies`, and the
\* failure of the transport.
Responses(bodies) ==
    {TransportFailure} \cup {Response(st, b) : st \in Statuses, b \in bodies}

AuthResponses ==
    Responses({Unreadable} \cup
              {Body(d, ShortText) :
                  d \in {Invalid, BadTokenDoc, ErrorDoc, CodeErrorDoc}
                        \cup {TokenDoc(t) : t \in Tokens}
                        \cup {TokenRecordDoc(t) : t \in Tokens}})

HealthResponses ==
    Responses({Unreadable} \cup {Body(d, ShortText) : d \in {Invalid, CodeErrorDoc, ErrorDoc}})

ViewResponses ==
    Responses({Unreadable} \cup
              {Body(d, x) : d \in {Invalid, CodeErrorDoc, RecordDoc(<<"xyz">>)}, x \in Texts})

WriteResponses ==
    Responses({Unreadable, Body(Invalid, <<>>)} \cup
              {Body(d, ShortText) : d \in {CodeErrorDoc, CreatedDoc}})

\* Item documents of the pages of an arbitrary server.
AnyItems == {RecordDoc(<<"a">>)}
AnyItemSeqs == UNION {[1..n -> AnyItems] : n \in 0..MaxPageItems}
AnyTotals == -1..(MaxPageItems + 1)

ListResponses(item) ==
    Responses({Unreadable} \cup
              {Body(d, x) : d \in {Invalid, CodeErrorDoc, PageDoc(1, 100, 0, <<>>),
                                   PageDoc(1, 100, 1, <<item>>),
                                   PageDoc(1, 100, 1, <<JNum(3)>>),
                                   PageDoc(1, 100, 2, <<item, BadRecordDoc>>)},
                            x \in {ShortText, <<Run(3, 700)>>}})

\* What an arbitrary server may answer to a page request of get_all.
AnyPageResponses ==
    {TransportFailure, Response(200, Unreadable), Response(200, Body(Invalid, ShortText)),
     Response(500, Body(CodeErrorDoc, ShortText)),
     Response(404, Body(CodeErrorDoc, <<Run(3, 700)>>)),
     Response(200, Body(PageDoc(1, 1000, 2, <<RecordDoc(<<"a">>), BadRecordDoc>>),
                        ShortText))}
    \cup {Response(st, Body(PageDoc(1, 1000, n, items), ShortText)) :
             st \in {200, 500}, n \in AnyTotals, items \in AnyItemSeqs}

\* The query value of `name` in a request.
QueryValue(request, name) ==
    LET i == CHOOSE j \in DOMAIN request.query : request.query[j].name = name IN
    request.query[i].value

\* The records a paging server holds: N records with ids "1".."N".
ServerItems(N) == [i \in 1..N |-> RecordDoc(I32ToString(i))]

\* The answer of a paging server holding N records in pages of P to `request`:
\* status 200, total_items = N and the records of the requested page.
PagedResponse(N, P, request) ==
    LET page_no == ParseNat(QueryValue(request, "page"))
        from == (page_no - 1) * P + 1
        to == Min(page_no * P, N)
    IN Response(200, Body(PageDoc(page_no, P, N, SubSeq(ServerItems(N), from, to)),
                          ShortText))

ServerResponses(request) ==
    IF server.mode = "paged" THEN {PagedResponse(server.N, server.P, request)}
    ELSE AnyPageResponses

\* Pages a get_all run is followed for.
PageLimit == IF server.mode = "paged" THEN MaxN + 1 ELSE MaxAnyPages

\* No get_all call is running.
NoServer == [mode |-> "none"]
AnyServer == [mode |-> "any"]
PagedServer(N, P) == [mode |-> "paged", N |-> N, P |-> P]

NoResponse == [t |-> "None"]
NoOp == [name |-> "none"]


\* -------------------------------------------------------------------- actions

\* A call that sends one request and returns: `name` on the value `self` of the
\* client at index c.
Returned(name, c, self, request, resp, result) ==
    /\ op' = [name |-> name, client |-> c, self |-> self]
    /\ sent' = <<request>>
    /\ last' = resp
    /\ outcome' = result
    /\ pc' = "returned"
    /\ UNCHANGED <<builders, server, all_items, page>>

\* Client::new(base_url)
New ==
    /\ pc = "idle"
    /\ \E base_url \in BaseUrls :
        /\ Len(clients) < MaxClients
        /\ clients' = Append(clients, ClientNew(base_url))
        /\ op' = [name |-> "new", client |-> Len(clients) + 1, self |-> base_url]
        /\ sent' = <<>>
        /\ last' = NoResponse
        /\ outcome' = NoOutcome
        /\ UNCHANGED <<builders, server, pc, all_items, page>>

\* client.auth_with_password(collection, identifier, secret) on a Client<NoAuth>;
\* the caller keeps the client it returns.
AuthWithPassword ==
    /\ pc = "idle"
    /\ \E c \in DOMAIN clients, collection \in CollectionNames, identifier \in Identifiers,
       secret \in Secrets, resp \in AuthResponses :
        LET result == AuthOutcome(clients[c], resp) IN
        /\ clients[c].state = NoAuth
        /\ result.t = "Ok" => Len(clients) < MaxClients
        /\ Returned("auth_with_password", c, clients[c],
                    AuthRequest(clients[c], collection, identifier, secret), resp, result)
        /\ clients' = IF result.t = "Ok" THEN Append(clients, result.v) ELSE clients

\* client.health_check()
HealthCheck ==
    /\ pc = "idle"
    /\ \E c \in DOMAIN clients, resp \in HealthResponses :
        /\ Returned("health_check", c, clients[c], HealthCheckRequest(clients[c]), resp,
                    HealthCheckOutcome(clients[c], resp))
        /\ UNCHANGED clients

\* The list builders a caller executes: fresh from list(), or with options set.
CollectionListBuilders(c) ==
    {CollectionsList(c), CollectionListFilter(CollectionsList(c), <<"x">>),
     CollectionListPage(CollectionListPerPage(CollectionsList(c), 7), 2)}
LogListBuilders(c) ==
    {LogsList(c), LogListSort(LogsList(c), <<"x">>),
     LogListPage(LogListPerPage(LogsList(c), 7), 2)}
RecordsListBuilders(c, name) ==
    {RecordsList(c, name),
     RecordsListExpand(RecordsListFilter(RecordsList(c, name), <<"x">>), <<"y">>),
     RecordsListPage(RecordsListPerPage(RecordsListSort(RecordsList(c, name), <<"x">>), 7), 2)}

\* client.collections().list()...call()
CollectionListCall ==
    /\ pc = "idle"
    /\ \E c \in DOMAIN clients, resp \in ListResponses(CollectionDoc) :
      \E self \in CollectionListBuilders(c) :
        /\ Returned("collection_list", c, self, CollectionListRequest(self, clients[c]),
                    resp, CollectionListOutcome(self, resp))
        /\ UNCHANGED clients

\* client.collections().view(name).call()
CollectionViewCall ==
    /\ pc = "idle"
    /\ \E c \in DOMAIN clients, name \in CollectionNames,
       resp \in Responses({Unreadable} \cup
                    {Body(d, ShortText) : d \in {Invalid, CodeErrorDoc, CollectionDoc}}) :
        LET self == CollectionsView(c, name) IN
        /\ Returned("collection_view", c, self, CollectionViewRequest(self, clients[c]),
                    resp, CollectionViewOutcome(self, resp))
        /\ UNCHANGED clients

\* client.logs().list()...call()
LogListCall ==
    /\ pc = "idle"
    /\ \E c \in DOMAIN clients, resp \in ListResponses(LogItemDoc) :
      \E self \in LogListBuilders(c) :
        /\ Returned("log_list", c, self, LogListRequest(self, clients[c]),
                    resp, LogListOutcome(self, resp))
        /\ UNCHANGED clients

\* client.logs().view(id).call()
LogViewCall ==
    /\ pc = "idle"
    /\ \E c \in DOMAIN clients, id \in Identifiers,
       resp \in Responses({Unreadable} \cup
                    {Body(d, ShortText) : d \in {Invalid, CodeErrorDoc, LogItemDoc}}) :
        LET self == LogsView(c, id) IN
        /\ Returned("log_view", c, self, LogViewRequest(self, clients[c]),
                    resp, LogViewOutcome(self, resp))
        /\ UNCHANGED clients

\* client.logs().statistics()[.filter(q)].call()
LogStatisticsCall ==
    /\ pc = "idle"
    /\ \E c \in DOMAIN clients,
       resp \in Responses({Unreadable} \cup
                    {Body(d, ShortText) : d \in {Invalid, CodeErrorDoc, StatsDoc}}) :
      \E self \in {LogsStatistics(c), [LogsStatistics(c) EXCEPT !.filter = SomeStr(<<"x">>)]} :
        /\ Returned("log_statistics", c, self, LogStatisticsRequest(self, clients[c]),
                    resp, LogStatisticsOutcome(self, resp))
        /\ UNCHANGED clients

\* client.records(name).list()...call()
RecordsListCall ==
    /\ pc = "idle"
    /\ \E c \in DOMAIN clients, name \in CollectionNames,
       resp \in ListResponses(RecordDoc(<<"a">>)) :
      \E self \in RecordsListBuilders(c, name) :
        /\ Returned("record_list", c, self, RecordsListRequest(self, clients[c]),
                    resp, RecordsListOutcome(self, clients[c], resp))
        /\ UNCHANGED clients

\* client.records(name).view(identifier).call()
RecordViewCall ==
    /\ pc = "idle"
    /\ \E c \in DOMAIN clients, name \in CollectionNames, identifier \in Identifiers,
       resp \in ViewResponses :
        LET self == RecordsView(c, name, identifier) IN
        /\ Returned("record_view", c, self, RecordViewRequest(self, clients[c]),
                    resp, RecordViewOutcome(self, clients[c], resp))
        /\ UNCHANGED clients

\* client.records(name).create(record).call()
RecordCreateCall ==
    /\ pc = "idle"
    /\ \E c \in DOMAIN clients, name \in CollectionNames, record \in Records,
       resp \in WriteResponses :
        LET self == RecordsCreate(c, name, record) IN
        /\ Returned("record_create", c, self, RecordCreateRequest(self, clients[c]),
                    resp, RecordCreateOutcome(self, resp))
        /\ UNCHANGED clients

\* client.records(name).update(identifier, record).call()
RecordUpdateCall ==
    /\ pc = "idle"
    /\ \E c \in DOMAIN clients, name \in CollectionNames, identifier \in Identifiers,
       record \in Records, resp \in WriteResponses :
        LET self == RecordsUpdate(c, name, identifier, record) IN
        /\ Returned("record_update", c, self, RecordUpdateRequest(self, clients[c]),
                    resp, RecordUpdateOutcome(self, resp))
        /\ UNCHANGED clients

\* client.records(name).destroy(identifier).call()
RecordDestroyCall ==
    /\ pc = "idle"
    /\ \E c \in DOMAIN clients, name \in CollectionNames, identifier \in Identifiers,
       resp \in WriteResponses :
        LET self == RecordsDestroy(c, name, identifier) IN
        /\ Returned("record_destroy", c, self, RecordDestroyRequest(self, clients[c]),
                    resp, RecordDestroyOutcome(self, resp))
        /\ UNCHANGED clients

\* The loop of a get_all call starts with no items at page 1, against `srv`.
\* entry "manager": client.records(name).get_all(); entry "builder":
\* client.records(name).list()...get_all().
StartGetAll(srv) ==
    \E c \in DOMAIN clients, name \in CollectionNames, entry \in {"manager", "builder"} :
      \E self \in IF entry = "manager" THEN {RecordsList(c, name)}
                  ELSE RecordsListBuilders(c, name) :
        /\ op' = [name |-> "get_all", client |-> c, self |-> self, entry |-> entry]
        /\ server' = srv
        /\ pc' = "send"
        /\ page' = 1
        /\ all_items' = <<>>
        /\ sent' = <<>>
        /\ last' = NoResponse
        /\ outcome' = NoOutcome
        /\ UNCHANGED <<clients, builders>>

\* get_all is called on a collection of N records that the server pages by P.
GetAllStart ==
    /\ pc = "idle"
    /\ \E N \in 0..MaxN, P \in 1..MaxP : StartGetAll(PagedServer(N, P))

\* get_all is called against a server that may answer anything.
GetAllStartAny ==
    /\ pc = "idle"
    /\ StartGetAll(AnyServer)

\* One iteration's request goes out.
GetAllSend ==
    /\ pc = "send"
    /\ page <= PageLimit
    /\ sent' = Append(sent, GetAllPageRequest(op.entry, op.self, clients[op.client], page))
    /\ pc' = "await"
    /\ UNCHANGED <<clients, builders, server, op, last, all_items, page, outcome>>

\* The iteration's response arrives: the `?` returns its error, or the items are
\* appended and the loop breaks or moves to the next page.
GetAllReceive ==
    /\ pc = "await"
    /\ \E resp \in ServerResponses(sent[Len(sent)]) :
        LET page_resp == GetAllPageOutcome(op.entry, op.self, clients[op.client], page, resp)
        IN
        /\ last' = resp
        /\ IF page_resp.t # "Ok"
           THEN /\ outcome' = page_resp
                /\ pc' = "returned"
                /\ UNCHANGED <<all_items, page>>
           ELSE /\ all_items' = Extend(all_items, page_resp.v.items)
                /\ IF GetAllBreak(Len(all_items'), page_resp.v.total_items)
                   THEN /\ outcome' = Ok(all_items')
                        /\ pc' = "returned"
                        /\ UNCHANGED page
                   ELSE /\ page' = NextPage(page)
                        /\ pc' = "send"
                        /\ UNCHANGED outcome
        /\ UNCHANGED <<clients, builders, server, op, sent>>

\* The caller has taken what the call returned and is ready for its next call.
Forget ==
    /\ pc = "returned"
    /\ pc' = "idle"
    /\ op' = NoOp
    /\ sent' = <<>>
    /\ last' = NoResponse
    /\ all_items' = <<>>
    /\ page' = 1
    /\ outcome' = NoOutcome
    /\ server' = NoServer
    /\ UNCHANGED <<clients, builders>>

\* --------------------------------------------------------------- specifications

InitCall ==
    /\ builders = <<>>
    /\ server = NoServer
    /\ pc = "idle"
    /\ op = NoOp
    /\ sent = <<>>
    /\ last = NoResponse
    /\ all_items = <<>>
    /\ page = 1
    /\ outcome = NoOutcome

\* A caller that has made one anonymous client.
Init ==
    /\ \E base_url \in BaseUrls : clients = <<ClientNew(base_url)>>
    /\ InitCall

Next ==
    \/ New
    \/ AuthWithPassword
    \/ HealthCheck
    \/ CollectionListCall
    \/ CollectionViewCall
    \/ LogListCall
    \/ LogViewCall
    \/ LogStatisticsCall
    \/ RecordsListCall
    \/ RecordViewCall
    \/ RecordCreateCall
    \/ RecordUpdateCall
    \/ RecordDestroyCall
    \/ GetAllStart
    \/ GetAllSend
    \/ GetAllReceive
    \/ Forget

Spec == Init /\ [][Next]_vars

\* A caller that holds an anonymous client and the client a login returned for it,
\* and runs get_all against a server that may answer anything.
InitFetch ==
    /\ \E base_url \in BaseUrls, token \in Tokens :
          clients = <<ClientNew(base_url), AuthenticatedClient(ClientNew(base_url), token)>>
    /\ InitCall

NextFetch ==
    \/ GetAllStartAny
    \/ GetAllSend
    \/ GetAllReceive
    \/ Forget

SpecFetch == InitFetch /\ [][NextFetch]_vars

\* get_all against a paging server and against a server that may answer anything.
NextPages ==
    \/ GetAllStart
    \/ GetAllStartAny
    \/ GetAllSend
    \/ GetAllReceive
    \/ Forget

SpecPages == InitFetch /\ [][NextPages]_vars


\* ------------------------------------------------- the builders a caller holds

IsRecordsList(b) == "collection_name" \in DOMAIN b
IsLogList(b) == "expand" \notin DOMAIN b
IsCollectionList(b) == ~IsRecordsList(b) /\ ~IsLogList(b)

\* The caller keeps the builder `made`; every builder it held is still there.
Keep(made, call) ==
    /\ Len(builders) < MaxBuilders
    /\ builders' = Append(builders, made)
    /\ op' = call
    /\ UNCHANGED <<clients, server, pc, sent, last, all_items, page, outcome>>

Factory(name) == [name |-> name]
\* The setter of `field` called with `value` on the builder at index src.
Setter(src, field, value) ==
    [name |-> "setter", src |-> src, field |-> field, value |-> value]

\* client.collections().list()
NewCollectionList ==
    \E c \in DOMAIN clients : Keep(CollectionsList(c), Factory("collections.list"))

\* client.logs().list()
NewLogList ==
    \E c \in DOMAIN clients : Keep(LogsList(c), Factory("logs.list"))

\* client.records(name).list()
NewRecordsList ==
    \E c \in DOMAIN clients, name \in CollectionNames :
        Keep(RecordsList(c, name), Factory("records.list"))

SetCollectionListFilter ==
    \E i \in DOMAIN builders, v \in OptionValues :
        /\ IsCollectionList(builders[i])
        /\ Keep(CollectionListFilter(builders[i], v), Setter(i, "filter", SomeStr(v)))

SetCollectionListSort ==
    \E i \in DOMAIN builders, v \in OptionValues :
        /\ IsCollectionList(builders[i])
        /\ Keep(CollectionListSort(builders[i], v), Setter(i, "sort", SomeStr(v)))

SetCollectionListExpand ==
    \E i \in DOMAIN builders, v \in OptionValues :
        /\ IsCollectionList(builders[i])
        /\ Keep(CollectionListExpand(builders[i], v), Setter(i, "expand", SomeStr(v)))

SetCollectionListPage ==
    \E i \in DOMAIN builders, v \in PageValues :
        /\ IsCollectionList(builders[i])
        /\ Keep(CollectionListPage(builders[i], v), Setter(i, "page", v))

SetCollectionListPerPage ==
    \E i \in DOMAIN builders, v \in PageValues :
        /\ IsCollectionList(builders[i])
        /\ Keep(CollectionListPerPage(builders[i], v), Setter(i, "per_page", v))

SetLogListFilter ==
    \E i \in DOMAIN builders, v \in OptionValues :
        /\ IsLogList(builders[i])
        /\ Keep(LogListFilter(builders[i], v), Setter(i, "filter", SomeStr(v)))

SetLogListSort ==
    \E i \in DOMAIN builders, v \in OptionValues :
        /\ IsLogList(builders[i])
        /\ Keep(LogListSort(builders[i], v), Setter(i, "sort", SomeStr(v)))

SetLogListPage ==
    \E i \in DOMAIN builders, v \in PageValues :
        /\ IsLogList(builders[i])
        /\ Keep(LogListPage(builders[i], v), Setter(i, "page", v))

SetLogListPerPage ==
    \E i \in DOMAIN builders, v \in PageValues :
        /\ IsLogList(builders[i])
        /\ Keep(LogListPerPage(builders[i], v), Setter(i, "per_page", v))

SetRecordsListFilter ==
    \E i \in DOMAIN builders, v \in OptionValues :
        /\ IsRecordsList(builders[i])
        /\ Keep(RecordsListFilter(builders[i], v), Setter(i, "filter", SomeStr(v)))

SetRecordsListSort ==
    \E i \in DOMAIN builders, v \in OptionValues :
        /\ IsRecordsList(builders[i])
        /\ Keep(RecordsListSort(builders[i], v), Setter(i, "sort", SomeStr(v)))

SetRecordsListExpand ==
    \E i \in DOMAIN builders, v \in OptionValues :
        /\ IsRecordsList(builders[i])
        /\ Keep(RecordsListExpand(builders[i], v), Setter(i, "expand", SomeStr(v)))

SetRecordsListPage ==
    \E i \in DOMAIN builders, v \in PageValues :
        /\ IsRecordsList(builders[i])
        /\ Keep(RecordsListPage(builders[i], v), Setter(i, "page", v))

SetRecordsListPerPage ==
    \E i \in DOMAIN builders, v \in PageValues :
        /\ IsRecordsList(builders[i])
        /\ Keep(RecordsListPerPage(builders[i], v), Setter(i, "per_page", v))

\* A caller with one anonymous client that makes list builders and derives
\* builders from the ones it holds.
InitBuilders ==
    /\ clients = <<ClientNew(<<"http://a">>)>>
    /\ InitCall

NextBuilders ==
    \/ NewCollectionList
    \/ NewLogList
    \/ NewRecordsList
    \/ SetCollectionListFilter
    \/ SetCollectionListSort
    \/ SetCollectionListExpand
    \/ SetCollectionListPage
    \/ SetCollectionListPerPage
    \/ SetLogListFilter
    \/ SetLogListSort
    \/ SetLogListPage
    \/ SetLogListPerPage
    \/ SetRecordsListFilter
    \/ SetRecordsListSort
    \/ SetRecordsListExpand
    \/ SetRecordsListPage
    \/ SetRecordsListPerPage

SpecBuilders == InitBuilders /\ [][NextBuilders]_vars


\* ------------------------------------- client.rs: AuthError as a tagged string

\* The characters of the names the tagged representation is written with.
Spell(name) ==
    CASE name = "variant" -> <<"v", "a", "r", "i", "a", "n", "t">>
      [] name = "payload" -> <<"p", "a", "y", "l", "o", "a", "d">>
      [] name = "Validation" -> <<"V", "a", "l", "i", "d", "a", "t", "i", "o", "n">>
      [] name = "Other" -> <<"O", "t", "h", "e", "r">>
      [] name = "data" -> <<"d", "a", "t", "a">>
      [] name = "message" -> <<"m", "e", "s", "s", "a", "g", "e">>
      [] name = "status" -> <<"s", "t", "a", "t", "u", "s">>
      [] name = "code" -> <<"c", "o", "d", "e">>
      [] name = "identity" -> <<"i", "d">>
      [] name = "password" -> <<"p", "w">>
Spelled ==
    {"variant", "payload", "Validation", "Other", "data", "message", "status", "code",
     "identity", "password"}
\* The name a key read from a text stands for; "?" for a key of no known name.
Unspell(chars) ==
    IF \E name \in Spelled : Spell(name) = chars
    THEN CHOOSE name \in Spelled : Spell(name) = chars
    ELSE "?"

JsonDigits == {"0", "1", "2", "3", "4", "5", "6", "7", "8", "9"}

\* serde_json's writer: a character of a string as it is written.
EscapeChar(c) ==
    CASE c = "\"" -> <<"\\", "\"">>
      [] c = "\\" -> <<"\\", "\\">>
      [] c = "\n" -> <<"\\", "n">>
      [] OTHER -> <<c>>
RECURSIVE EscapeString(_)
EscapeString(chars) ==
    IF chars = <<>> THEN <<>> ELSE EscapeChar(chars[1]) \o EscapeString(Tail(chars))

\* A mutation of WriteString: the characters are written as they are.
WriteStringRaw(chars) == <<"\"">> \o chars \o <<"\"">>

\* serde_json's writer: a string.
WriteString(chars) == <<"\"">> \o EscapeString(chars) \o <<"\"">>

RECURSIVE WriteValue(_)
RECURSIVE WriteMembers(_, _)
\* serde_json::to_string: the text of a document, without whitespace.
WriteValue(doc) ==
    CASE doc.k = "str" -> WriteString(doc.s)
      [] doc.k = "num" -> I32ToString(doc.n)
      [] doc.k = "obj" -> <<"{">> \o WriteMembers(doc.m, 1) \o <<"}">>
WriteMembers(m, i) ==
    IF i > Len(m) THEN <<>>
    ELSE (IF i > 1 THEN <<",">> ELSE <<>>)
         \o WriteString(Spell(m[i].key)) \o <<":">> \o WriteValue(m[i].val)
         \o WriteMembers(m, i + 1)

\* What the reader returns: a value and the text after it, or a syntax error.
Read(v, rest) == [ok |-> TRUE, v |-> v, rest |-> rest]
NoRead == [ok |-> FALSE]

RECURSIVE SkipSpace(_)
SkipSpace(t) == IF t # <<>> /\ t[1] = " " THEN SkipSpace(Tail(t)) ELSE t

RECURSIVE ReadChars(_, _)
\* The characters of a string up to its closing quote; t starts after the opening
\* quote.  A control character must be escaped.
ReadChars(t, acc) ==
    IF t = <<>> THEN NoRead
    ELSE IF t[1] = "\"" THEN Read(acc, Tail(t))
    ELSE IF t[1] = "\n" THEN NoRead
    ELSE IF t[1] = "\\"
    THEN IF Len(t) < 2 THEN NoRead
         ELSE IF t[2] \in {"\"", "\\", "/"} THEN ReadChars(SubSeq(t, 3, Len(t)), Append(acc, t[2]))
         ELSE IF t[2] = "n" THEN ReadChars(SubSeq(t, 3, Len(t)), Append(acc, "\n"))
         ELSE NoRead
    ELSE ReadChars(Tail(t), Append(acc, t[1]))

RECURSIVE ReadDigits(_, _)
ReadDigits(t, acc) ==
    IF t # <<>> /\ t[1] \in JsonDigits THEN ReadDigits(Tail(t), Append(acc, t[1]))
    ELSE Read(acc, t)

\* A JSON integer: an optional minus and digits without a leading zero.
ReadNumber(t) ==
    LET neg == t # <<>> /\ t[1] = "-"
        d == ReadDigits(IF neg THEN Tail(t) ELSE t, <<>>)
    IN IF d.v = <<>> \/ (Len(d.v) > 1 /\ d.v[1] = "0") THEN NoRead
       ELSE Read(JNum(IF neg THEN 0 - ParseNat(d.v) ELSE ParseNat(d.v)), d.rest)

RECURSIVE ReadValue(_)
RECURSIVE ReadMembers(_, _)
\* serde_json's reader, for strings, integers and objects.
ReadValue(text) ==
    LET t == SkipSpace(text) IN
    IF t = <<>> THEN NoRead
    ELSE IF t[1] = "\""
    THEN LET r == ReadChars(Tail(t), <<>>) IN
         IF r.ok THEN Read(JStr(r.v), r.rest) ELSE NoRead
    ELSE IF t[1] = "{"
    THEN LET u == SkipSpace(Tail(t)) IN
         IF u # <<>> /\ u[1] = "}" THEN Read(JObj(<<>>), Tail(u))
         ELSE ReadMembers(u, <<>>)
    ELSE IF t[1] = "-" \/ t[1] \in JsonDigits THEN ReadNumber(t)
    ELSE NoRead
\* The members of an object from a key on, up to the closing brace.
ReadMembers(text, acc) ==
    LET t == SkipSpace(text) IN
    IF t = <<>> \/ t[1] # "\"" THEN NoRead
    ELSE LET key == ReadChars(Tail(t), <<>>) IN
         IF ~key.ok THEN NoRead
         ELSE LET u == SkipSpace(key.rest) IN
              IF u = <<>> \/ u[1] # ":" THEN NoRead
              ELSE LET val == ReadValue(Tail(u)) IN
                   IF ~val.ok THEN NoRead
                   ELSE LET w == SkipSpace(val.rest)
                            all == Append(acc, Member(Unspell(key.v), val.v))
                        IN IF w = <<>> THEN NoRead
                           ELSE IF w[1] = "}" THEN Read(JObj(all), Tail(w))
                           ELSE IF w[1] = "," THEN ReadMembers(Tail(w), all)
                           ELSE NoRead

\* serde_json::from_str: the document of a text; trailing characters are an error.
FromJsonText(text) ==
    LET r == ReadValue(text) IN
    IF r.ok /\ SkipSpace(r.rest) = <<>> THEN r.v ELSE Invalid

\* serde_json::to_string(&ErrorResponse): fields in declaration order, the entries
\* of the HashMap in the order `order` its iteration happens to take.
ErrorResponseDoc(err, order) ==
    JObj(<<Member("data",
                  JObj([i \in DOMAIN order |->
                          Member(order[i],
                                 JObj(<<Member("code", JStr(err.data[order[i]].code)),
                                        Member("message",
                                               JStr(err.data[order[i]].message))>>))])),
           Member("message", JStr(err.message)),
           Member("status", JNum(err.status))>>)

\* AuthErrorRepr, #[serde(tag = "variant", content = "payload")], of an AuthError.
ReprDoc(e, order) ==
    IF e.kind = "Validation"
    THEN JObj(<<Member("variant", JStr(Spell("Validation"))),
                Member("payload", ErrorResponseDoc(e.payload, order))>>)
    ELSE JObj(<<Member("variant", JStr(Spell("Other"))),
                Member("payload", JStr(e.msg))>>)

\* The orders in which a HashMap with the keys of `data` may be iterated.
Orders(data) ==
    {o \in [1..Cardinality(DOMAIN data) -> DOMAIN data] :
        \A i, j \in DOMAIN o : o[i] = o[j] => i = j}
OrdersOf(e) == IF e.kind = "Validation" THEN Orders(e.payload.data) ELSE {<<>>}

\* impl Display for AuthError: serde_json::to_string(&repr) does not fail for
\* these types, so the text is the JSON of the tagged representation.
AuthErrorToString(e, order) == WriteValue(ReprDoc(e, order))

\* Deserialize for AuthErrorRepr reading a document: an object with the tag and
\* the content in either order, other keys skipped, a repeated key refused.
DecodeRepr(doc) ==
    IF doc.k # "obj" THEN DecErr(<<>>, IF doc.k = "invalid" THEN "syntax" ELSE "invalid type")
    ELSE LET tags == {i \in DOMAIN doc.m : doc.m[i].key = "variant"}
             contents == {i \in DOMAIN doc.m : doc.m[i].key = "payload"}
         IN IF Cardinality(tags) > 1 \/ Cardinality(contents) > 1
            THEN DecErr(<<>>, "duplicate field")
            ELSE IF tags = {} THEN DecErr(<<>>, "missing field")
            ELSE LET tag == doc.m[CHOOSE i \in tags : TRUE].val IN
                 IF tag.k # "str" THEN DecErr(<<>>, "invalid type")
                 ELSE IF tag.s \notin {Spell("Validation"), Spell("Other")}
                 THEN DecErr(<<>>, "unknown variant")
                 ELSE IF contents = {} THEN DecErr(<<>>, "missing field")
                 ELSE LET content == doc.m[CHOOSE i \in contents : TRUE].val IN
                      IF tag.s = Spell("Validation")
                      THEN LET r == Decode(content, ErrorResponse) IN
                           IF r.ok THEN DecOk(AuthValidation(r.v)) ELSE r
                      ELSE IF content.k = "str" THEN DecOk(AuthOther(content.s))
                      ELSE DecErr(<<>>, "invalid type")

\* impl FromStr for AuthError: never an Err.
AuthErrorFromStr(text) ==
    LET r == DecodeRepr(FromJsonText(text)) IN
    IF r.ok THEN Ok(r.v) ELSE Ok(AuthOther(text))

\* The characters messages are made of: a letter and the characters the writer
\* escapes.
MsgChars == {"a", "\"", "\\", "\n"}
Messages == UNION {[1..n -> MsgChars] : n \in 0..MaxMsgLen}
ShortMessages == {<<>>, <<"a">>, <<"\"">>, <<"\\", "n">>}

ValidationErrors == {[code |-> c, message |-> m] : c \in {<<"a">>, <<"\\">>}, m \in {<<>>, <<"\"">>}}
ErrorResponses ==
    {[data |-> d, message |-> m, status |-> st] :
        d \in {<<>>} \cup {("identity" :> v) @@ <<>> : v \in ValidationErrors}
               \cup {("password" :> w) @@ (("identity" :> v) @@ <<>>) :
                        v \in ValidationErrors, w \in {[code |-> <<"a">>, message |-> <<>>]}},
        m \in ShortMessages, st \in {-1, 0, 400}}

\* "name" as it is written in a text.
Quoted(name) == WriteString(Spell(name))
TaggedText(variant, payload) ==
    <<"{">> \o Quoted("variant") \o <<":">> \o variant
        \o <<",">> \o Quoted("payload") \o <<":">> \o payload \o <<"}">>

AuthErrors ==
    {AuthOther(m) : m \in Messages \cup {TaggedText(Quoted("Other"), <<"\"", "a", "\"">>)}}
    \cup {AuthValidation(err) : err \in ErrorResponses}

\* Texts that are tagged representations, with the AuthError each one stands for.
ValidTexts ==
    {[text |-> TaggedText(Quoted("Other"), <<"\"", "a", "\"">>), err |-> AuthOther(<<"a">>)],
     [text |-> <<"{">> \o Quoted("payload") \o <<":", "\"", "\\", "n", "\"", ",", " ">>
                  \o Quoted("variant") \o <<":">> \o Quoted("Other") \o <<" ", "}">>,
      err |-> AuthOther(<<"\n">>)],
     [text |-> <<"{">> \o Quoted("code") \o <<":", "7", ",">> \o Quoted("variant") \o <<":">>
                  \o Quoted("Other") \o <<",">> \o Quoted("payload")
                  \o <<":", "\"", "\"", "}">>,
      err |-> AuthOther(<<>>)]}

\* Texts that are not tagged representations.
InvalidTexts ==
    {<<>>, <<"a">>, <<"\"", "a", "\"">>, <<"{", "}">>, <<"7">>, <<"\"", "a">>,
     <<"{">> \o Quoted("variant") \o <<":">> \o Quoted("Other") \o <<"}">>,
     TaggedText(Quoted("Other"), <<"7">>),
     TaggedText(Quoted("Other"), <<"\"", "\n", "\"">>),
     TaggedText(Quoted("data"), <<"\"", "a", "\"">>),
     TaggedText(Quoted("Validation"), <<"\"", "a", "\"">>),
     TaggedText(Quoted("Validation"), <<"{", "}">>),
     TaggedText(Quoted("Other"), <<"\"", "a", "\"">>) \o <<"a">>,
     TaggedText(Quoted("Other"), <<"\"", "a", "\"">> \o <<",">> \o Quoted("payload")
                                   \o <<":", "\"", "a", "\"">>)}

\* e.to_string()
DisplayAuthError ==
    /\ pc = "idle"
    /\ \E e \in AuthErrors :
         \E order \in OrdersOf(e) :
            /\ op' = [name |-> "to_string", err |-> e]
            /\ outcome' = Ok(AuthErrorToString(e, order))
    /\ pc' = "formatted"
    /\ UNCHANGED <<clients, builders, server, sent, last, all_items, page>>

\* AuthError::from_str of the text to_string gave.
FromStrFormatted ==
    /\ pc = "formatted"
    /\ op' = [name |-> "from_str", text |-> outcome.v, err |-> op.err]
    /\ outcome' = AuthErrorFromStr(outcome.v)
    /\ pc' = "returned"
    /\ UNCHANGED <<clients, builders, server, sent, last, all_items, page>>

\* AuthError::from_str of a text from elsewhere.
FromStrAny ==
    /\ pc = "idle"
    /\ \E text \in InvalidTexts \cup {v.text : v \in ValidTexts} :
          /\ op' = [name |-> "from_str", text |-> text]
          /\ outcome' = AuthErrorFromStr(text)
    /\ pc' = "returned"
    /\ UNCHANGED <<clients, builders, server, sent, last, all_items, page>>

NextAuthError ==
    \/ DisplayAuthError
    \/ FromStrFormatted
    \/ FromStrAny
    \/ Forget

SpecAuthError == Init /\ [][NextAuthError]_vars

\* ==================================================================== claims

\* The value of the member `key` of the object `doc`.
Lookup(doc, key) ==
    doc.m[CHOOSE i \in DOMAIN doc.m : doc.m[i].key = key].val
HasMember(doc, key, kind) ==
    /\ doc.k = "obj"
    /\ \E i \in DOMAIN doc.m : doc.m[i].key = key /\ doc.m[i].val.k = kind
Keys(doc) == {doc.m[i].key : i \in DOMAIN doc.m}

\* The body arrived and is a JSON object with a string member `token`.
HasToken(body) == body.k = "body" /\ HasMember(body.json, "token", "str")

\* The body arrived and is a page: an object with totalItems and items, each item
\* a record.
IsPage(body) ==
    /\ body.k = "body"
    /\ HasMember(body.json, "totalItems", "num")
    /\ HasMember(body.json, "items", "arr")
    /\ \A i \in DOMAIN Lookup(body.json, "items").a :
          HasMember(Lookup(body.json, "items").a[i], "id", "str")

\* The body arrived and has the shape of an ErrorResponse.
IsErrorResponse(body) ==
    /\ body.k = "body"
    /\ HasMember(body.json, "status", "num")
    /\ HasMember(body.json, "message", "str")
    /\ HasMember(body.json, "data", "obj")
    /\ \A f \in Keys(Lookup(body.json, "data")) :
          /\ HasMember(Lookup(body.json, "data"), f, "obj")
          /\ HasMember(Lookup(Lookup(body.json, "data"), f), "code", "str")
          /\ HasMember(Lookup(Lookup(body.json, "data"), f), "message", "str")

\* The Authorization header values a request carries.
Authorization(request) ==
    SelectSeq(request.headers, LAMBDA h : h.name = "Authorization")

Ceil(n, d) == (n + d - 1) \div d

GetAllReturned == op.name = "get_all" /\ pc = "returned"
GetAllRunning == op.name = "get_all" /\ pc \in {"send", "await"}
Called(name) == op.name = name /\ pc = "returned"
NonSuccess(resp) == resp.t = "Resp" /\ (resp.status < 200 \/ resp.status >= 300)

\* C1 as stated: against a server that reports total_items = N on every page and
\* pages by P, get_all returns N items after ceil(N/P) page fetches, for every
\* N >= 0 and P >= 1.
C1_FetchesCeilNOverP ==
    GetAllReturned =>
        /\ outcome.t = "Ok"
        /\ Len(sent) = Ceil(server.N, server.P)
        /\ Len(outcome.v) = server.N

\* C1 as amended: against such a server get_all returns the N items after
\* ceil(N/P) page fetches when N >= 1 and after exactly one page fetch when
\* N = 0; while it runs it never asks for a page beyond that.
C1_FetchesCeilNOverPOrOne ==
    LET fetches == IF server.N = 0 THEN 1 ELSE Ceil(server.N, server.P) IN
    /\ GetAllReturned =>
          /\ outcome.t = "Ok"
          /\ Len(sent) = fetches
          /\ Len(outcome.v) = server.N
    /\ GetAllRunning => page <= fetches /\ Len(sent) <= fetches

C1_Witness ==
    /\ GetAllReturned
    /\ server.N = MaxN /\ server.P = 2
    /\ Len(sent) = Ceil(MaxN, 2) /\ Len(sent) >= 2
    /\ Len(outcome.v) = MaxN

\* C2: get_all stops with success exactly when, after appending a page's items,
\* the count of items collected equals that page's total_items: whenever a 2xx
\* page arrives, the loop returns the items if the counts are equal and otherwise
\* (page empty or not, count below or above the total) goes on to the next page;
\* and it never returns success on any other ground.
C2_StopsExactlyOnCountEquality ==
    [][(op.name = "get_all" /\ pc = "await") =>
          /\ (outcome'.t = "Ok") =>
                /\ IsPage(last'.body)
                /\ Len(outcome'.v) = Lookup(last'.body.json, "totalItems").n
          /\ (last'.t = "Resp" /\ is_success(last'.status) /\ IsPage(last'.body)) =>
                LET total == Lookup(last'.body.json, "totalItems").n
                    got == Len(all_items) + Len(Lookup(last'.body.json, "items").a)
                IN /\ Len(all_items') = got
                   /\ IF got = total
                      THEN pc' = "returned" /\ outcome'.t = "Ok" /\ outcome'.v = all_items'
                      ELSE pc' = "send" /\ page' = page + 1 /\ outcome' = NoOutcome
      ]_vars

\* An empty page arrived while the count was already past the total, and the
\* loop is about to ask for a further page.
C2_Witness ==
    /\ op.name = "get_all" /\ pc = "send" /\ page = 3
    /\ last.t = "Resp" /\ last.status = 200 /\ IsPage(last.body)
    /\ Lookup(last.body.json, "items").a = <<>>
    /\ Len(all_items) > Lookup(last.body.json, "totalItems").n
    /\ Lookup(last.body.json, "totalItems").n >= 0

\* C3: auth_with_password on an anonymous client answered 200 with a body holding
\* a token returns a new Authenticated client with that token and the original's
\* base_url; whatever the answer, every client the caller held, the original
\* among them, is unchanged.
C3_AuthMakesNewClient ==
    [][(pc = "idle" /\ op'.name = "auth_with_password") =>
          LET self == clients[op'.client] IN
          /\ self.auth_token = NoneStr /\ self.state = NoAuth
          /\ \A i \in DOMAIN clients : i \in DOMAIN clients' /\ clients'[i] = clients[i]
          /\ (last'.t = "Resp" /\ last'.status = 200 /\ HasToken(last'.body)) =>
                /\ outcome'.t = "Ok"
                /\ outcome'.v.state = Auth
                /\ outcome'.v.auth_token = SomeStr(Lookup(last'.body.json, "token").s)
                /\ outcome'.v.base_url = self.base_url
                /\ clients' = Append(clients, outcome'.v)
      ]_vars

C3_Witness ==
    /\ Called("auth_with_password") /\ outcome.t = "Ok"
    /\ last.status = 200 /\ HasToken(last.body)
    /\ clients[op.client] = ClientNew(<<"http://b">>)
    /\ clients[Len(clients)].state = Auth
    /\ clients[Len(clients)].base_url = <<"http://b">>
    /\ clients[Len(clients)].auth_token = SomeStr(<<"tokB">>)

\* C4: every request an operation sends carries exactly one Authorization header,
\* equal to the stored token, when the client it was built from holds a token,
\* and no Authorization header when it holds none.
C4_AuthorizationIffToken ==
    \A i \in DOMAIN sent :
        LET client == clients[op.client] IN
        IF client.auth_token.k = "Some"
        THEN Authorization(sent[i]) = <<Header("Authorization", client.auth_token.s)>>
        ELSE Authorization(sent[i]) = <<>>

\* The second page request of a get_all on an Authenticated client.
C4_Witness ==
    /\ op.name = "get_all" /\ Len(sent) = 2
    /\ clients[op.client].state = Auth
    /\ Authorization(sent[2]) = <<Header("Authorization", <<"tokA">>)>>

\* C5 as stated: auth_with_password answered with any 4xx status fails with
\* AuthError::Validation carrying the ErrorResponse decoded from the body.
C5_Every4xxIsValidation ==
    (Called("auth_with_password") /\ last.t = "Resp" /\ last.status >= 400
        /\ last.status < 500) =>
        /\ outcome.t = "Err"
        /\ outcome.e.kind = "Validation"

\* C5 as amended: auth_with_password answered with a 4xx status returns no client;
\* it fails with AuthError::Validation carrying the status, message and per-field
\* code and message of the body when the body is an ErrorResponse, and with
\* AuthError::Other when the body is not one or cannot be read.
C5_4xxValidationOrOther ==
    (Called("auth_with_password") /\ last.t = "Resp" /\ last.status >= 400
        /\ last.status < 500) =>
        /\ outcome.t = "Err"
        /\ IF IsErrorResponse(last.body)
           THEN LET doc == last.body.json
                    data == Lookup(doc, "data")
                    payload == outcome.e.payload
                IN /\ outcome.e.kind = "Validation"
                   /\ payload.status = Lookup(doc, "status").n
                   /\ payload.message = Lookup(doc, "message").s
                   /\ DOMAIN payload.data = Keys(data)
                   /\ \A f \in Keys(data) :
                         /\ payload.data[f].code = Lookup(Lookup(data, f), "code").s
                         /\ payload.data[f].message = Lookup(Lookup(data, f), "message").s
           ELSE outcome.e.kind = "Other"

C5_Witness ==
    /\ Called("auth_with_password") /\ last.t = "Resp" /\ last.status = 404
    /\ IsErrorResponse(last.body)
    /\ outcome.t = "Err" /\ outcome.e.kind = "Validation"
    /\ outcome.e.payload.status = 400
    /\ DOMAIN outcome.e.payload.data = {"identity"}

\* C6: auth_with_password fails with AuthError::Other, and so returns no client,
\* when the transport fails, when the status is neither 2xx nor 4xx, and when the
\* status is 200 but the body holds no token or cannot be read.
C6_OtherFailuresAreOther ==
    (Called("auth_with_password")
        /\ \/ last.t = "Transport"
           \/ NonSuccess(last) /\ (last.status < 400 \/ last.status >= 500)
           \/ last.t = "Resp" /\ last.status = 200 /\ ~HasToken(last.body)) =>
        /\ outcome.t = "Err"
        /\ outcome.e.kind = "Other"

C6_Witness ==
    /\ Called("auth_with_password") /\ last.t = "Resp" /\ last.status = 500
    /\ IsErrorResponse(last.body)
    /\ outcome.t = "Err" /\ outcome.e.kind = "Other"

\* C7: a record view answered with a non-2xx status and a body returns NotFound
\* with the builder's collection and identifier exactly when the status is 404,
\* and Http with the status and the URL otherwise; body_snippet is the body when
\* the body is at most 2000 bytes long and its first 2000 bytes otherwise.
C7_ViewNon2xxIsNotFoundOrHttp ==
    (Called("record_view") /\ NonSuccess(last) /\ last.body.k = "body") =>
        /\ outcome.t = "Err"
        /\ IF last.status = 404
           THEN /\ outcome.e.kind = "NotFound"
                /\ outcome.e.collection = op.self.collection_name
                /\ outcome.e.identifier = op.self.identifier
           ELSE /\ outcome.e.kind = "Http"
                /\ outcome.e.status = last.status
                /\ outcome.e.url = sent[1].url
        /\ IF ByteLen(last.body.text) <= SnippetLimit
           THEN outcome.e.body_snippet = last.body.text
           ELSE /\ ByteLen(outcome.e.body_snippet) = SnippetLimit
                /\ outcome.e.body_snippet = BytePrefix(last.body.text, SnippetLimit)

\* C8: a record destroy returns success exactly when a response arrives with
\* status 204; any other status, 2xx or not, and a transport failure are failures.
C8_DestroyOkIff204 ==
    Called("record_destroy") =>
        (outcome.t = "Ok" <=> (last.t = "Resp" /\ last.status = 204))

\* Status 200 is reported as a failure.
C8_Witness ==
    /\ Called("record_destroy") /\ last.t = "Resp" /\ last.status = 200
    /\ outcome.t = "Err"

\* C9: a setter of a list builder (collections, logs, records) gives a builder of
\* the same type that holds the value set in the field set and the original's
\* value in every other field, and no builder the caller already held changes,
\* whatever sequence of setters is called on whichever builders.
C9_SettersChangeOneField ==
    [][/\ \A i \in DOMAIN builders : i \in DOMAIN builders' /\ builders'[i] = builders[i]
       /\ op'.name = "setter" =>
             LET old == builders[op'.src]
                 new == builders'[Len(builders')]
             IN /\ Len(builders') = Len(builders) + 1
                /\ DOMAIN new = DOMAIN old
                /\ new[op'.field] = op'.value
                /\ \A f \in DOMAIN old \ {op'.field} : new[f] = old[f]
      ]_vars

\* Two builders derived from one base by different setters.
C9_Witness ==
    /\ Len(builders) = 3
    /\ op.name = "setter" /\ op.src = 1 /\ op.field = "page"
    /\ builders[1] = RecordsList(1, <<"posts">>)
    /\ builders[2].filter = SomeStr(<<"x">>) /\ builders[2].page = DefaultPage
    /\ builders[3].filter = NoneStr /\ builders[3].page = 7

\* C10: no operation returns a success value from a response whose status is not
\* 2xx.
C10_Non2xxIsFailure ==
    (pc = "returned" /\ op.name # "auth_with_password" /\ NonSuccess(last)) =>
        outcome.t # "Ok"


\* A page fetch that fails: the transport fails, the status is not 2xx, or the body
\* cannot be read or is not a page.
PageFails(resp) ==
    \/ resp.t = "Transport"
    \/ NonSuccess(resp)
    \/ resp.t = "Resp" /\ ~IsPage(resp.body)

\* C11: no operation retries: a call other than get_all returns after one request,
\* and get_all returns a failure, not the items it has collected, and sends no
\* further request, at the first page fetch that fails (transport failure, non-2xx
\* status or decode failure).
C11_NoRetryStopsAtFirstFailure ==
    [][/\ (pc' = "returned" /\ op'.name \notin {"get_all", "new", "none"}) =>
             Len(sent') = 1
       /\ (op.name = "get_all" /\ pc = "await" /\ PageFails(last')) =>
             /\ pc' = "returned"
             /\ outcome'.t # "Ok"
             /\ sent' = sent
      ]_vars


\* The values of the query parameter `name` of a request, in order.
ParamValues(request, name) ==
    LET named == SelectSeq(request.query, LAMBDA q : q.name = name) IN
    [i \in DOMAIN named |-> named[i].value]
\* The values an optional setting of the builder puts in the query.
Held(opt) == IF opt.k = "Some" THEN <<opt.s>> ELSE <<>>

\* C12: the requests of a get_all are, in order, for page 1, 2, 3, ..., each a GET
\* of the collection's records with perPage 1000 and with the filter, sort and
\* expand of the builder it was called on, whatever page and per_page that builder
\* holds; the request for page k+1 goes out only after the response to page k has
\* arrived, so at most one request is unanswered at any time.
C12_PagesInOrderOneAtATime ==
    /\ [](op.name = "get_all" =>
            /\ \A i \in DOMAIN sent :
                  /\ sent[i].method = "GET"
                  /\ sent[i].url = clients[op.client].base_url
                        \o <<"/api/collections/">> \o op.self.collection_name
                        \o <<"/records">>
                  /\ ParamValues(sent[i], "page") = <<I32ToString(i)>>
                  /\ ParamValues(sent[i], "perPage") = <<(<<"1", "0", "0", "0">>)>>
                  /\ ParamValues(sent[i], "filter") = Held(op.self.filter)
                  /\ ParamValues(sent[i], "sort") = Held(op.self.sort)
                  /\ ParamValues(sent[i], "expand") = Held(op.self.expand)
            /\ Len(sent) = (IF pc = "send" THEN page - 1 ELSE page))
    /\ [][(op.name = "get_all" /\ op' = op) =>
            /\ Len(sent') > Len(sent) =>
                  /\ pc = "send" /\ pc' = "await"
                  /\ Len(sent') = Len(sent) + 1
                  /\ SubSeq(sent', 1, Len(sent)) = sent
                  /\ last' = last
                  /\ Len(sent) > 0 => last.t = "Resp"
            /\ pc = "await" =>
                  /\ sent' = sent
                  /\ last'.t \in {"Resp", "Transport"}
                  /\ pc' \in {"send", "returned"}
         ]_vars

\* The third page request of a get_all called on a builder that holds a sort,
\* page 2 and per_page 7.
C12_Witness ==
    /\ op.name = "get_all" /\ op.entry = "builder" /\ pc = "await"
    /\ op.self.page = 2 /\ op.self.per_page = 7 /\ op.self.sort = SomeStr(<<"x">>)
    /\ Len(sent) = 3
    /\ ParamValues(sent[3], "page") = <<(<<"3">>)>>
    /\ ParamValues(sent[3], "sort") = <<(<<"x">>)>>


\* The records a page's item documents decode to, in document order.
RecordsOf(docs) == [i \in DOMAIN docs |-> [id |-> Lookup(docs[i], "id").s]]

\* C13: a get_all starts with nothing collected; every page it accepts adds that
\* page's items, in the order of the response, after the items collected before;
\* and what it returns on success is what it has collected.  So the result is the
\* concatenation of the pages in page order with nothing dropped, reordered or
\* deduplicated; against a paging server of N distinct records it is records
\* 1..N in order.
C13_ResultIsConcatenation ==
    /\ [][/\ (pc = "idle" /\ op'.name = "get_all") => all_items' = <<>>
          /\ (op.name = "get_all" /\ pc = "send") => all_items' = all_items
          /\ (op.name = "get_all" /\ pc = "await" /\ (pc' = "send" \/ outcome'.t = "Ok")) =>
                /\ IsPage(last'.body)
                /\ all_items' = all_items \o RecordsOf(Lookup(last'.body.json, "items").a)
                /\ outcome'.t = "Ok" => outcome'.v = all_items'
         ]_vars
    /\ []((GetAllReturned /\ outcome.t = "Ok" /\ server.mode = "paged") =>
             outcome.v = [i \in 1..server.N |-> [id |-> I32ToString(i)]])

\* The server returned the same record on page 1 and on page 2, and the result
\* holds it twice.
C13_Witness ==
    /\ GetAllReturned /\ outcome.t = "Ok" /\ Len(sent) = 2
    /\ Lookup(last.body.json, "items").a = <<RecordDoc(<<"a">>)>>
    /\ outcome.v = <<[id |-> <<"a">>], [id |-> <<"a">>]>>


\* The document is a record of type T: an object with a string id.
IsRecord(doc) == HasMember(doc, "id", "str")
\* The first item of a page document that is not a record.
FirstBadItem(items) ==
    CHOOSE i \in DOMAIN items :
        /\ ~IsRecord(items[i])
        /\ \A j \in 1..(i - 1) : IsRecord(items[j])
\* Where reading `doc` as a record diverges, below the path `at`: at its id when
\* it has one of another type, and otherwise at the record itself.
RecordDivergence(at, doc) ==
    IF doc.k = "obj" /\ \E i \in DOMAIN doc.m : doc.m[i].key = "id"
    THEN at \o (IF at = <<>> THEN <<>> ELSE <<".">>) \o <<"id">>
    ELSE IF at = <<>> THEN <<".">> ELSE at
\* Where reading `doc` as a page of records diverges.
PageDivergence(doc) ==
    IF HasMember(doc, "page", "num") /\ HasMember(doc, "perPage", "num")
          /\ HasMember(doc, "totalItems", "num") /\ HasMember(doc, "items", "arr")
    THEN LET items == Lookup(doc, "items").a
             i == FirstBadItem(items)
         IN RecordDivergence(<<"items", "[">> \o NatToString(i - 1) \o <<"]">>, items[i])
    ELSE <<".">>
\* What a failure reports of a decode error: view's Decode variant, or the message
\* of the list call.
DecodeReport(e) ==
    IF e.kind = "Decode"
    THEN [path |-> e.path, why |-> e.source, snippet |-> e.body_snippet]
    ELSE [path |-> e.what.path, why |-> e.what.why, snippet |-> e.what.snippet]
HasDecodeReport(e) ==
    \/ e.kind = "Decode"
    \/ e.kind = "anyhow" /\ {"path", "why", "snippet"} \subseteq DOMAIN e.what

\* C14: a record list call, a record view call and a page fetch of get_all that
\* receive a 2xx response whose body is not of the expected type fail with a
\* decode error that carries the path where decoding diverged (items[i].f for a
\* wrongly typed field f of item i), the description of the failure, and the body
\* when it is at most 2000 bytes long and its first 2000 bytes otherwise.
C14_DecodeErrorCarriesPath ==
    (/\ pc = "returned" /\ op.name \in {"record_list", "record_view", "get_all"}
     /\ last.t = "Resp" /\ last.status >= 200 /\ last.status < 300
     /\ last.body.k = "body"
     /\ IF op.name = "record_view" THEN ~IsRecord(last.body.json)
        ELSE ~IsPage(last.body)) =>
        /\ outcome.t = "Err"
        /\ HasDecodeReport(outcome.e)
        /\ DecodeReport(outcome.e).path =
              (IF op.name = "record_view" THEN RecordDivergence(<<>>, last.body.json)
               ELSE PageDivergence(last.body.json))
        /\ DecodeReport(outcome.e).why \in
              {"syntax", "invalid type", "invalid value", "missing field", "duplicate field"}
        /\ DecodeReport(outcome.e).snippet =
              (IF ByteLen(last.body.text) <= SnippetLimit THEN last.body.text
               ELSE BytePrefix(last.body.text, SnippetLimit))
        /\ ByteLen(DecodeReport(outcome.e).snippet) <= SnippetLimit


\* C15: parsing the text that formatting an AuthError gives, whatever order the
\* entries of its data map are written in, returns the same variant with an equal
\* payload; parsing never fails; and a text that is not a tagged representation
\* parses to Other carrying that text unchanged, while one that is parses to the
\* error it stands for.
C15_AuthErrorRoundTrip ==
    (op.name = "from_str" /\ pc = "returned") =>
        /\ outcome.t = "Ok"
        /\ "err" \in DOMAIN op =>
              /\ outcome.v.kind = op.err.kind
              /\ outcome.v = op.err
        /\ op.text \in InvalidTexts => outcome.v = AuthOther(op.text)
        /\ \A v \in ValidTexts : op.text = v.text => outcome.v = v.err

\* A Validation whose message holds a quote and whose data has two entries has
\* come back from its text.
C15_Witness ==
    /\ op.name = "from_str" /\ pc = "returned" /\ "err" \in DOMAIN op
    /\ op.err.kind = "Validation"
    /\ op.err.payload.message = <<"\"">>
    /\ DOMAIN op.err.payload.data = {"identity", "password"}
    /\ op.err.payload.status = -1
    /\ outcome = Ok(op.err)


\* C16: at every moment each client in the Auth state holds a token and each
\* client in the NoAuth state holds none; no operation changes or drops a client
\* that exists; an Auth client comes into existence only as the result of an
\* auth_with_password whose response had status 200 and a body with a token, which
\* it then holds, and a NoAuth client only from new; auth_with_password answered
\* with another 2xx status fails.
C16_TypestateMatchesToken ==
    /\ [](\A i \in DOMAIN clients :
             /\ clients[i].state \in {NoAuth, Auth}
             /\ clients[i].state = Auth <=> clients[i].auth_token.k = "Some")
    /\ [][/\ \A i \in DOMAIN clients : i \in DOMAIN clients' /\ clients'[i] = clients[i]
          /\ Len(clients') <= Len(clients) + 1
          /\ Len(clients') > Len(clients) =>
                LET made == clients'[Len(clients')] IN
                IF made.state = Auth
                THEN /\ op'.name = "auth_with_password"
                     /\ last'.t = "Resp" /\ last'.status = 200 /\ HasToken(last'.body)
                     /\ made.auth_token = SomeStr(Lookup(last'.body.json, "token").s)
                     /\ outcome' = Ok(made)
                ELSE op'.name = "new"
          /\ (pc = "idle" /\ op'.name = "auth_with_password" /\ last'.t = "Resp"
                 /\ last'.status # 200) =>
                outcome'.t = "Err" /\ clients' = clients
         ]_vars

\* An Auth client exists, and an auth_with_password answered 201 with a token in
\* the body has failed and made no client.
C16_Witness ==
    /\ Called("auth_with_password") /\ last.t = "Resp" /\ last.status = 201
    /\ HasToken(last.body)
    /\ outcome.t = "Err"
    /\ Len(clients) = 2
    /\ clients[1].state = NoAuth /\ clients[1].auth_token = NoneStr
    /\ clients[2].state = Auth /\ clients[2].auth_token = SomeStr(<<"tokB">>)


\* The other entry point of get_all.
OtherEntry(entry) == IF entry = "manager" THEN "builder" ELSE "manager"

\* C17: RecordsManager::get_all and RecordsListRequestBuilder::get_all on an
\* unmodified list() builder are equivalent: in every run of either one, each
\* request sent is the request the other would send for that page, and each
\* response (2xx or not) is accepted by the one exactly when it is accepted by the
\* other, with the same items; so both send the same requests and return the same
\* items or fail in the same cases.
C17_EntryPointsEquivalent ==
    [][(/\ op.name = "get_all" /\ pc = "await" /\ op' = op
        /\ op.self = RecordsList(op.client, op.self.collection_name)) =>
          LET other == GetAllPageOutcome(OtherEntry(op.entry), op.self,
                                         clients[op.client], page, last')
          IN /\ sent[Len(sent)] = GetAllPageRequest(OtherEntry(op.entry), op.self,
                                                    clients[op.client], page)
             /\ other.t = "Ok" <=> (pc' = "send" \/ outcome'.t = "Ok")
             /\ other.t = "Ok" => all_items' = all_items \o other.v.items
      ]_vars


====
